---- MODULE Spec2Model ----
(***************************************************************************)
(* The Touch gesture recognizer (components/Touch) as a state machine       *)
(* driven by input events.                                                 *)
(*                                                                         *)
(* A JavaScript object is a function from its defined keys to values: a    *)
(* key that is absent reads as undefined.  gesture.current = {} is the     *)
(* empty function.  Every step of Next is one input event handled to       *)
(* completion; ev is that event (with the props of the render that handled *)
(* it) and trace is the sequence of calls the handler made, in order.      *)
(*                                                                         *)
(* The ImageBase component (components/ImageBase) is modelled next to it:  *)
(* its two state hooks, the queue of state updates a handler has called    *)
(* and React has not rendered yet, and its image events.                   *)
(***************************************************************************)
EXTENDS Integers, Sequences, FiniteSets, TLC

VARIABLES gesture, didSlide, listeners, touch, now, ev, trace,
          loaded, failed, updates, isOnLoadStatusChecked, hasSrc,
          imageEv, imageTrace

touchVars == <<gesture, didSlide, listeners, touch, now, ev, trace>>

imageVars == <<loaded, failed, updates, isOnLoadStatusChecked, hasSrc,
               imageEv, imageTrace>>

vars == <<touchVars, imageVars>>

\* ------------------------------------------------------------------ bounds
\* A touch event carries 1..MaxTouches active touch points.
MaxTouches == 2
\* The largest pointer coordinate.
MaxCoord == 9

DefaultSlideThreshold == 5

\* Pointer coordinates the environment produces, on either axis: shifts of
\* 0, below the threshold, the threshold and above it, of either sign.
Coords == {0, DefaultSlideThreshold, MaxCoord}
\* The points at which a gesture starts.
StartPoints ==
  {<<0, 0>>, <<DefaultSlideThreshold, DefaultSlideThreshold>>}

\* -------------------------------------------------------- JavaScript values
EmptyObject == <<>>

Has(o, k) == k \in DOMAIN o

\* o[k] is truthy: every flag of the model is a boolean or undefined.
Truthy(o, k) == Has(o, k) /\ o[k] = TRUE

\* Object.assign(o, r)
ObjectAssign(o, r) ==
  [k \in DOMAIN o \cup DOMAIN r |-> IF k \in DOMAIN r THEN r[k] ELSE o[k]]

MathAbs(n) == IF n < 0 THEN -n ELSE n

\* A ref holding v; RefUndefined is a ref whose current is undefined.
RefOf(v) == [current |-> v]
RefUndefined == EmptyObject

\* ------------------------------------------------------------- environment
\* slideThreshold values a consumer passes (the default among them).
SlideThresholds == {DefaultSlideThreshold}

\* getSupportedEvents(): start, move, end, cancel.
events ==
  IF touch THEN <<"touchstart", "touchmove", "touchend", "touchcancel">>
  ELSE <<"mousedown", "mousemove", "mouseup", "mouseleave">>

touchEnabled == touch

\* e.touches.length of a move event; a mouse event has no touches (0).
TouchCounts == IF touch THEN 1..MaxTouches ELSE {0}

StartCallbacks == {"onStart", "onStartX", "onStartY"}
MoveCallbacks == {"onMove", "onMoveX", "onMoveY"}
EndCallbacks == {"onEnd", "onEndX", "onEndY"}

\* Non-decreasing sequences of n clock readings, none before the current one
\* and none after T.
ClockReadings(n, T) ==
  {ts \in [1..n -> now..T] : \A i \in 1..(n - 1) : ts[i] <= ts[i + 1]}

\* The callback prop named cb, as the render that handles the event sees it:
\* the name when registered, "" (undefined) when not.
Prop(p, cb) == IF cb \in p.reg THEN cb ELSE ""

\* ------------------------------------------------------------------ handle
\* One call of a gesture callback: the snapshot it gets, the clock reading at
\* which it is made and the duration computed from it.
\* A duration taken the wrong way round: start time minus clock reading.
Call_reversed(cb, g, startT, t) ==
  [op |-> cb, g |-> g, at |-> t, duration |-> startT - t]

Call(cb, g, startT, t) ==
  [op |-> cb, g |-> g, at |-> t, duration |-> t - startT]

\* handle calling its handlers last to first.
handle_reversed(p, g, handers, ts) ==
  LET n == Len(handers)
      calls == [i \in 1..n |->
                  Call(handers[n + 1 - i], g, g["startT"], ts[i])]
  IN (IF p.stopPropagation THEN <<[op |-> "stopPropagation"]>> ELSE <<>>)
     \o SelectSeq(calls, LAMBDA c : c.op # "")

\* handle(e, handers): stopPropagation, then each truthy handler in order
\* with the gesture snapshot and a fresh duration.
handle(p, g, handers, ts) ==
  LET calls == [i \in 1..Len(handers) |-> Call(handers[i], g, g["startT"], ts[i])]
  IN (IF p.stopPropagation THEN <<[op |-> "stopPropagation"]>> ELSE <<>>)
     \o SelectSeq(calls, LAMBDA c : c.op # "")

\* l.add(el) of a listener with the given bindings: the listener is detached
\* from where it was and attached to el, if el is not null.
listenerAdd(bindings, el) == IF el = "null" THEN <<>> ELSE <<el>>

\* subscribe reaching the move listener only.
subscribe_first(el) ==
  [l \in DOMAIN listeners |->
     IF l = 1 THEN listenerAdd(listeners[l], el) ELSE listeners[l]]

\* subscribe(el): listeners.forEach((l) => l.add(el))
subscribe(el) ==
  [l \in DOMAIN listeners |-> listenerAdd(listeners[l], el)]

\* ------------------------------------------------------------ startHandler
\* The gesture record a start event creates.
\* A start record that lacks isPressed.
startGesture_unpressed(e, t) ==
  [startX |-> e.x, startY |-> e.y, startT |-> t]

startGesture(e, t) ==
  [startX |-> e.x, startY |-> e.y, startT |-> t, isPressed |-> TRUE]

\* startHandlers without the axis callbacks.
startHandlers_onlyGeneric(p) ==
  <<Prop(p, "onStart"), "", "">>

startHandlers(p) ==
  <<Prop(p, "onStart"), Prop(p, "onStartX"), Prop(p, "onStartY")>>

\* ts[1] is new Date(); ts[2..4] are the Date.now() of the three handlers.
startHandler(e, p, ts) ==
  /\ gesture' = startGesture(e, ts[1])
  /\ trace' = handle(p, gesture', startHandlers(p), SubSeq(ts, 2, 4))
  /\ listeners' = IF ~touchEnabled THEN subscribe("document") ELSE listeners
  /\ now' = ts[4]
  /\ ev' = [e EXCEPT !.props = p]
  /\ UNCHANGED <<didSlide, touch>>

\* ------------------------------------------------------------------- onEnd
\* endHandlers without the isSlideY / isSlideX gates.
endHandlers_ungated(g, p) ==
  <<Prop(p, "onEnd"), Prop(p, "onEndY"), Prop(p, "onEndX")>>

endHandlers(g, p) ==
  << Prop(p, "onEnd"),
     IF Truthy(g, "isSlideY") THEN Prop(p, "onEndY") ELSE "",
     IF Truthy(g, "isSlideX") THEN Prop(p, "onEndX") ELSE "" >>

\* didSlide.current = isSlideX
endDidSlide_axisX(g) ==
  IF Has(g, "isSlideX") THEN RefOf(g["isSlideX"]) ELSE RefUndefined

\* didSlide.current = isSlide
endDidSlide(g) ==
  IF Has(g, "isSlide") THEN RefOf(g["isSlide"]) ELSE RefUndefined

\* endLeave for every touch event, touchmove too.
endLeave_anyTouch(e, p, g) ==
  IF e.type \in {"touchmove", "touchend", "touchcancel"} /\ Prop(p, "onLeave") # ""
  THEN <<[op |-> "onLeave", g |-> g]>>
  ELSE <<>>

\* onLeave(e) for an event that was a touch event; g is gesture.current
\* when it is called.
endLeave(e, p, g) ==
  IF e.type \in {"touchend", "touchcancel"} /\ Prop(p, "onLeave") # ""
  THEN <<[op |-> "onLeave", g |-> g]>>
  ELSE <<>>

onEnd(e, p, ts) ==
  /\ didSlide' = endDidSlide(gesture)
  /\ gesture' = EmptyObject
  /\ trace' = (IF Truthy(gesture, "isPressed")
               THEN handle(p, gesture, endHandlers(gesture, p), ts)
               ELSE <<>>)
              \o endLeave(e, p, gesture')
  /\ listeners' = IF ~touchEnabled THEN subscribe("null") ELSE listeners
  /\ now' = ts[3]
  /\ ev' = [e EXCEPT !.props = p]
  /\ UNCHANGED touch

\* ------------------------------------------------------------------ onMove
\* willBeX with >= for the strict comparison of the two axes.
willBeX_tie(shiftXAbs, shiftYAbs, p) ==
  shiftXAbs >= p.slideThreshold /\ shiftXAbs >= shiftYAbs

willBeX(shiftXAbs, shiftYAbs, p) ==
  shiftXAbs >= p.slideThreshold /\ shiftXAbs > shiftYAbs

willBeY(shiftXAbs, shiftYAbs, p) ==
  shiftYAbs >= p.slideThreshold /\ shiftYAbs > shiftXAbs

\* willBeSlidedX without the test for a registered callback.
willBeSlidedX_unregistered(wX, p) == wX

willBeSlidedX(wX, p) == wX /\ (Prop(p, "onMoveX") # "" \/ Prop(p, "onMove") # "")

willBeSlidedY(wY, p) == wY /\ (Prop(p, "onMoveY") # "" \/ Prop(p, "onMove") # "")

\* The axis decided anew at every sample.
undecided_always(g) == TRUE

\* if (!isX && !isY)
undecided(g) == ~Truthy(g, "isX") /\ ~Truthy(g, "isY")

\* The axis decision of lines 133-146 on the record g.
decideAxis(g, shiftXAbs, shiftYAbs, p) ==
  IF undecided(g)
  THEN LET wX == willBeX(shiftXAbs, shiftYAbs, p)
           wY == willBeY(shiftXAbs, shiftYAbs, p)
           sX == willBeSlidedX(wX, p)
           sY == willBeSlidedY(wY, p)
       IN ObjectAssign(g, [isY |-> wY, isX |-> wX, isSlideX |-> sX,
                           isSlideY |-> sY, isSlide |-> sX \/ sY])
  ELSE g

\* moveHandlers without the isSlideX / isSlideY gates.
moveHandlers_ungated(g, p) ==
  <<Prop(p, "onMove"), Prop(p, "onMoveX"), Prop(p, "onMoveY")>>

moveHandlers(g, p) ==
  << Prop(p, "onMove"),
     IF Truthy(g, "isSlideX") THEN Prop(p, "onMoveX") ELSE "",
     IF Truthy(g, "isSlideY") THEN Prop(p, "onMoveY") ELSE "" >>

\* The shift fields of lines 149-154.
\* The shifts stored without Math.abs.
moveShifts_signed(g, shiftX, shiftY) ==
  ObjectAssign(g, [shiftX |-> shiftX, shiftY |-> shiftY,
                   shiftXAbs |-> shiftX, shiftYAbs |-> shiftY])

moveShifts(g, shiftX, shiftY) ==
  ObjectAssign(g, [shiftX |-> shiftX, shiftY |-> shiftY,
                   shiftXAbs |-> MathAbs(shiftX), shiftYAbs |-> MathAbs(shiftY)])

\* The multi-touch test passing two touch points.
isMultiTouch_three(e) == e.touches > 2

\* e.touches && e.touches.length > 1
isMultiTouch(e) == e.touches > 1

onMove(e, p, ts) ==
  IF ~Truthy(gesture, "isPressed")
  THEN /\ trace' = <<>>
       /\ now' = ts[3]
       /\ ev' = [e EXCEPT !.props = p]
       /\ UNCHANGED <<gesture, didSlide, listeners, touch>>
  ELSE IF isMultiTouch(e)
  THEN onEnd(e, p, ts)
  ELSE LET shiftX == e.x - gesture["startX"]
           shiftY == e.y - gesture["startY"]
           g1 == decideAxis(gesture, MathAbs(shiftX), MathAbs(shiftY), p)
           g2 == IF Truthy(g1, "isSlide") THEN moveShifts(g1, shiftX, shiftY) ELSE g1
       IN /\ gesture' = g2
          /\ trace' = IF Truthy(g1, "isSlide")
                      THEN handle(p, g2, moveHandlers(g2, p), ts)
                      ELSE <<>>
          /\ now' = ts[3]
          /\ ev' = [e EXCEPT !.props = p]
          /\ UNCHANGED <<didSlide, listeners, touch>>

\* -------------------------------------------------------- postGestureClick
clickForward(p) ==
  IF Prop(p, "onClickCapture") # "" THEN <<[op |-> "onClickCapture"]>> ELSE <<>>

\* clickAfterSlide forwarding the click under noSlideClick too.
clickAfterSlide_forwards(e, p) ==
  (IF e.inLink THEN <<[op |-> "preventDefault"]>> ELSE <<>>)
  \o (IF p.noSlideClick THEN <<[op |-> "stopPropagation"]>> ELSE <<>>)
  \o clickForward(p)

\* The calls of a click that follows a slide (lines 209-216).
clickAfterSlide(e, p) ==
  (IF e.inLink THEN <<[op |-> "preventDefault"]>> ELSE <<>>)
  \o (IF p.noSlideClick THEN <<[op |-> "stopPropagation"]>> ELSE clickForward(p))

\* postGestureClick without line 217: the flag is left set.
postGestureClick_keepsFlag(e, p, ts) ==
  /\ trace' = IF ~Truthy(didSlide, "current")
              THEN clickForward(p)
              ELSE clickAfterSlide(e, p)
  /\ now' = ts[1]
  /\ ev' = [e EXCEPT !.props = p]
  /\ UNCHANGED <<gesture, didSlide, listeners, touch>>

postGestureClick(e, p, ts) ==
  /\ IF ~Truthy(didSlide, "current")
     THEN /\ trace' = clickForward(p)
          /\ UNCHANGED didSlide
     ELSE /\ trace' = clickAfterSlide(e, p)
          /\ didSlide' = RefOf(FALSE)
  /\ now' = ts[1]
  /\ ev' = [e EXCEPT !.props = p]
  /\ UNCHANGED <<gesture, listeners, touch>>

\* ------------------------------------------------------------ input events
\* An input event carries what its handler reads of it: a start or move
\* event its coordinates, a move event its number of touch points, a click
\* whether its target is inside a link.
Event(kind, type, x, y, touches, inLink) ==
  [kind |-> kind, type |-> type, x |-> x, y |-> y, touches |-> touches,
   inLink |-> inLink, props |-> EmptyObject]

\* The props a handler reads, of the render in effect when the event arrives.
GestureProps(callbacks, SP) ==
  [reg : SUBSET callbacks, stopPropagation : SP,
   slideThreshold : SlideThresholds]

\* postGestureClick reads the click's target and noSlideClick only after a
\* slide (didSlide.current set); otherwise they are left at their defaults.
ClickProps ==
  [reg : SUBSET {"onClickCapture"},
   noSlideClick : IF Truthy(didSlide, "current") THEN BOOLEAN ELSE {FALSE}]

ClickInLink == IF Truthy(didSlide, "current") THEN BOOLEAN ELSE {FALSE}

\* A start event on the element: startHandler is bound to it at mount.
Start(T, SP) ==
  /\ UNCHANGED imageVars
  /\ \E xy \in StartPoints :
     \E p \in GestureProps(StartCallbacks, SP), ts \in ClockReadings(4, T) :
       startHandler(Event("start", events[1], xy[1], xy[2], 0, FALSE), p, ts)

\* onMove and onEnd read the event's coordinates and the gesture callbacks
\* only behind `if (isPressed)`: with no gesture pressed they go unread and
\* are left out of the event (coordinates 0, no callback registered).
Read(S, default) == IF Truthy(gesture, "isPressed") THEN S ELSE default

\* A move event, delivered while the move listener is bound.  A multi-touch
\* sample of a pressed gesture runs onEnd, which reads the end callbacks and
\* decides on onLeave.
Move(T, SP) ==
  /\ UNCHANGED imageVars
  /\ listeners[1] # <<>>
  /\ \E x \in Read(Coords, {0}), y \in Read(Coords, {0}), n \in TouchCounts :
     \E p \in GestureProps(
                Read(IF n > 1 THEN EndCallbacks \cup {"onLeave"}
                     ELSE MoveCallbacks, {}), SP),
        ts \in ClockReadings(3, T) :
       onMove(Event("move", events[2], x, y, n, FALSE), p, ts)

End(T, SP) ==
  /\ UNCHANGED imageVars
  /\ listeners[2] # <<>>
  /\ \E p \in GestureProps(Read(EndCallbacks, {}) \cup {"onLeave"}, SP),
        ts \in ClockReadings(3, T) :
       onEnd(Event("end", events[3], 0, 0, 0, FALSE), p, ts)

Cancel(T, SP) ==
  /\ UNCHANGED imageVars
  /\ listeners[3] # <<>>
  /\ \E p \in GestureProps(Read(EndCallbacks, {}) \cup {"onLeave"}, SP),
        ts \in ClockReadings(3, T) :
       onEnd(Event("cancel", events[4], 0, 0, 0, FALSE), p, ts)

Click(T) ==
  /\ UNCHANGED imageVars
  /\ \E inLink \in ClickInLink, p \in ClickProps, ts \in ClockReadings(1, T) :
       postGestureClick(Event("click", "click", 0, 0, 0, inLink), p, ts)

\* ImageBase after its first render: both state hooks false, nothing queued,
\* the effect not run yet.  Src is the set of choices for "src or srcSet
\* given", which decides whether an <img> is rendered at all.
ImageMounted(Src) ==
  /\ loaded = FALSE
  /\ failed = FALSE
  /\ updates = <<>>
  /\ isOnLoadStatusChecked = FALSE
  /\ hasSrc \in Src
  /\ imageEv = [kind |-> "mount", reg |-> {}, complete |-> FALSE]
  /\ imageTrace = <<>>

\* After mount: the layout effect has bound start to the element and, in a
\* touch environment, the move/end/cancel listeners too.
TouchMounted(Touch) ==
  /\ touch \in Touch
  /\ gesture = EmptyObject
  /\ didSlide = RefOf(FALSE)
  /\ listeners = [l \in 1..3 |-> IF touch THEN listenerAdd(<<>>, "el") ELSE <<>>]
  /\ now = 0
  /\ ev = Event("mount", "", 0, 0, 0, FALSE)
  /\ trace = <<>>

Init == TouchMounted(BOOLEAN) /\ ImageMounted({FALSE})

\* The gesture machine with the clock standing still (every reading is 0) and
\* stopPropagation left at its default, false.  T bounds the clock readings
\* and SP is the set of stopPropagation values of a specification.
Next == Start(0, {FALSE}) \/ Move(0, {FALSE}) \/ End(0, {FALSE}) \/ Cancel(0, {FALSE}) \/ Click(0)

Spec == Init /\ [][Next]_vars

\* ------------------------------------------------------------------ claims
\* The gesture machine with a running clock: every reading of Date is drawn
\* from the current time up to MaxTime, never below the reading before it.
\* Every gesture starts at the origin and moves along X only.
MaxTime == 2

TimedProps(callbacks) ==
  [reg : SUBSET callbacks, stopPropagation : {FALSE},
   slideThreshold : SlideThresholds]

TimedStart ==
  /\ UNCHANGED imageVars
  /\ \E p \in TimedProps(StartCallbacks), ts \in ClockReadings(4, MaxTime) :
       startHandler(Event("start", events[1], 0, 0, 0, FALSE), p, ts)

TimedMove ==
  /\ UNCHANGED imageVars
  /\ listeners[1] # <<>>
  /\ \E x \in Read({0, MaxCoord}, {0}), n \in TouchCounts :
     \E p \in TimedProps(Read(IF n > 1 THEN EndCallbacks
                              ELSE MoveCallbacks, {})),
        ts \in ClockReadings(3, MaxTime) :
       onMove(Event("move", events[2], x, 0, n, FALSE), p, ts)

TimedEnd ==
  /\ UNCHANGED imageVars
  /\ listeners[2] # <<>>
  /\ \E p \in TimedProps(Read(EndCallbacks, {})),
        ts \in ClockReadings(3, MaxTime) :
       onEnd(Event("end", events[3], 0, 0, 0, FALSE), p, ts)

TimedCancel ==
  /\ UNCHANGED imageVars
  /\ listeners[3] # <<>>
  /\ \E p \in TimedProps(Read(EndCallbacks, {})),
        ts \in ClockReadings(3, MaxTime) :
       onEnd(Event("cancel", events[4], 0, 0, 0, FALSE), p, ts)

NextClock == TimedStart \/ TimedMove \/ TimedEnd \/ TimedCancel

SpecClock == Init /\ [][NextClock]_vars

\* The gesture machine with stopPropagation set or not at each render; the
\* clock stands still.
NextStop == Start(0, BOOLEAN) \/ Move(0, BOOLEAN) \/ End(0, BOOLEAN) \/ Cancel(0, BOOLEAN)

SpecStop == Init /\ [][NextStop]_vars

\* ---------------------------------------------------------------- ImageBase
\* The number of image events handled before React renders their updates.
MaxPending == 3

\* A call of a state hook's setter, queued until the next render.
SetState(name, value) == [state |-> name, value |-> value]

\* The value of state hook `name` in the render that applies the queue q to
\* its value v: that of the last queued update of the hook, if any.
RECURSIVE useState(_, _, _)
useState(name, v, q) ==
  IF q = <<>> THEN v
  ELSE useState(name, IF Head(q).state = name THEN Head(q).value ELSE v,
                Tail(q))

\* handleImageLoad without setFailed(false).
handleImageLoad_keepsFailed(reg) ==
  IF loaded
  THEN /\ imageTrace' = <<>>
       /\ UNCHANGED updates
  ELSE /\ updates' = updates \o <<SetState("loaded", TRUE)>>
       /\ imageTrace' = IF "onLoad" \in reg THEN <<"onLoad">> ELSE <<>>

\* handleImageLoad of the current render: `loaded` is the value that render
\* saw.
handleImageLoad(reg) ==
  IF loaded
  THEN /\ imageTrace' = <<>>
       /\ UNCHANGED updates
  ELSE /\ updates' = updates \o <<SetState("loaded", TRUE),
                                  SetState("failed", FALSE)>>
       /\ imageTrace' = IF "onLoad" \in reg THEN <<"onLoad">> ELSE <<>>

handleImageError(reg) ==
  /\ updates' = updates \o <<SetState("loaded", FALSE),
                             SetState("failed", TRUE)>>
  /\ imageTrace' = IF "onError" \in reg THEN <<"onError">> ELSE <<>>

\* An image event may arrive while fewer than MaxPending handlers' updates
\* (two each) wait for a render.
RenderPending == Len(updates) >= 2 * MaxPending

\* A load event on the <img>.
ImageLoad ==
  /\ hasSrc /\ ~RenderPending
  /\ \E reg \in SUBSET {"onLoad"} :
       /\ handleImageLoad(reg)
       /\ imageEv' = [kind |-> "load", reg |-> reg, complete |-> FALSE]
  /\ UNCHANGED <<loaded, failed, isOnLoadStatusChecked, hasSrc>>
  /\ UNCHANGED touchVars

\* An error event on the <img>.
ImageError ==
  /\ hasSrc /\ ~RenderPending
  /\ \E reg \in SUBSET {"onError"} :
       /\ handleImageError(reg)
       /\ imageEv' = [kind |-> "error", reg |-> reg, complete |-> FALSE]
  /\ UNCHANGED <<loaded, failed, isOnLoadStatusChecked, hasSrc>>
  /\ UNCHANGED touchVars

\* The effect after mount: once, it dispatches a load event on an <img> that
\* is already complete, which runs handleImageLoad.  img.complete and onLoad
\* go unread when there is no <img>.
ImageEffect ==
  /\ ~isOnLoadStatusChecked
  /\ isOnLoadStatusChecked' = TRUE
  /\ \E complete \in IF hasSrc THEN BOOLEAN ELSE {FALSE} :
     \E reg \in IF complete THEN SUBSET {"onLoad"} ELSE {{}} :
       /\ IF hasSrc /\ complete /\ ~loaded
          THEN handleImageLoad(reg)
          ELSE imageTrace' = <<>> /\ UNCHANGED updates
       /\ imageEv' = [kind |-> "effect", reg |-> reg, complete |-> complete]
  /\ UNCHANGED <<loaded, failed, hasSrc>>
  /\ UNCHANGED touchVars

\* React renders the queued updates; the effects of the render before have
\* run by then.
ImageRender ==
  /\ isOnLoadStatusChecked
  /\ updates # <<>>
  /\ loaded' = useState("loaded", loaded, updates)
  /\ failed' = useState("failed", failed, updates)
  /\ updates' = <<>>
  /\ imageTrace' = <<>>
  /\ imageEv' = [kind |-> "render", reg |-> {}, complete |-> FALSE]
  /\ UNCHANGED <<isOnLoadStatusChecked, hasSrc>>
  /\ UNCHANGED touchVars

InitImage == TouchMounted({FALSE}) /\ ImageMounted(BOOLEAN)

NextImage == ImageEffect \/ ImageLoad \/ ImageError \/ ImageRender

SpecImage == InitImage /\ [][NextImage]_vars

IsPressed(g) == Truthy(g, "isPressed")
IsX(g) == Truthy(g, "isX")
IsY(g) == Truthy(g, "isY")
IsSlideX(g) == Truthy(g, "isSlideX")
IsSlideY(g) == Truthy(g, "isSlideY")
IsSlide(g) == Truthy(g, "isSlide")

\* The names of the calls of a trace, in order, and as a set.
OpSeq(tr) == [i \in DOMAIN tr |-> tr[i].op]
Ops(tr) == {tr[i].op : i \in DOMAIN tr}
Count(tr, op) == Cardinality({i \in DOMAIN tr : tr[i].op = op})

\* The step handles a single-touch move sample of a pressed gesture.
MoveSample == ev'.kind = "move" /\ IsPressed(gesture) /\ ev'.touches <= 1
\* The step ends a pressed gesture: end, cancel or multi-touch abort.
GestureEnds ==
  /\ IsPressed(gesture)
  /\ \/ ev'.kind \in {"end", "cancel"}
     \/ ev'.kind = "move" /\ ev'.touches > 1

\* Absolute displacement of event e from the start of gesture g.
AbsX(g, e) == MathAbs(e.x - g["startX"])
AbsY(g, e) == MathAbs(e.y - g["startY"])

\* C1: a move sample of a pressed, unlocked gesture locks X iff
\* |shiftX| >= slideThreshold and |shiftX| > |shiftY|, and locks Y iff
\* |shiftY| >= slideThreshold and |shiftY| > |shiftX|; a tie locks neither
\* and leaves the gesture unlocked for the next sample.
C1_LockRule ==
  [][ (MoveSample /\ ~IsX(gesture) /\ ~IsY(gesture))
      => LET ax == AbsX(gesture, ev')
             ay == AbsY(gesture, ev')
             thr == ev'.props.slideThreshold
         IN /\ IsX(gesture') <=> (ax >= thr /\ ax > ay)
            /\ IsY(gesture') <=> (ay >= thr /\ ay > ax)
            /\ IsPressed(gesture') ]_vars

\* A sample tied at the threshold has been evaluated and locked neither axis.
C1_Witness ==
  /\ ev.kind = "move" /\ IsPressed(gesture) /\ Has(gesture, "isX")
  /\ ~IsX(gesture) /\ ~IsY(gesture)
  /\ AbsX(gesture, ev) = AbsY(gesture, ev)
  /\ AbsX(gesture, ev) >= ev.props.slideThreshold

\* C2: at most one of isX and isY is true in every state, and a move sample
\* of a gesture locked on one axis leaves that axis locked and the other
\* unlocked, whatever its displacement.
C2_LockExclusivePermanent ==
  /\ [](~(IsX(gesture) /\ IsY(gesture)))
  /\ [][ MoveSample => /\ IsX(gesture) => (IsX(gesture') /\ ~IsY(gesture'))
                       /\ IsY(gesture) => (IsY(gesture') /\ ~IsX(gesture')) ]_vars

\* A gesture locked on X has taken a sample that favours Y above the threshold.
C2_Witness ==
  /\ ev.kind = "move" /\ ev.touches <= 1 /\ IsX(gesture)
  /\ AbsY(gesture, ev) >= ev.props.slideThreshold
  /\ AbsY(gesture, ev) > AbsX(gesture, ev)

\* C3: isSlideX holds only on a gesture locked on X, and becomes true only at
\* a move sample handled with onMoveX or onMove registered (likewise Y); a
\* sample that locks an axis with neither registered leaves isSlide false,
\* and no later sample of a locked gesture with isSlide false dispatches.
C3_SlideNeedsCallback ==
  /\ []((IsSlideX(gesture) => IsX(gesture)) /\ (IsSlideY(gesture) => IsY(gesture)))
  /\ [][ /\ (~IsSlideX(gesture) /\ IsSlideX(gesture'))
            => (ev'.kind = "move" /\ ev'.props.reg \cap {"onMoveX", "onMove"} # {})
         /\ (~IsSlideY(gesture) /\ IsSlideY(gesture'))
            => (ev'.kind = "move" /\ ev'.props.reg \cap {"onMoveY", "onMove"} # {})
         /\ (MoveSample /\ ~IsX(gesture) /\ IsX(gesture')
             /\ ev'.props.reg \cap {"onMoveX", "onMove"} = {})
            => (~IsSlide(gesture') /\ trace' = <<>>)
         /\ (MoveSample /\ ~IsY(gesture) /\ IsY(gesture')
             /\ ev'.props.reg \cap {"onMoveY", "onMove"} = {})
            => (~IsSlide(gesture') /\ trace' = <<>>)
         /\ (MoveSample /\ (IsX(gesture) \/ IsY(gesture)) /\ ~IsSlide(gesture))
            => (~IsSlide(gesture') /\ trace' = <<>>) ]_vars

\* A gesture locked on X without a slide has taken a later sample with
\* onMoveX registered, and nothing was dispatched.
C3_Witness ==
  /\ ev.kind = "move" /\ ev.touches <= 1 /\ IsX(gesture) /\ ~IsSlide(gesture)
  /\ "onMoveX" \in ev.props.reg /\ trace = <<>>

\* C4: a move callback is called only by a move sample of a pressed gesture
\* that is axis-locked and slide-flagged; onMoveX only with isSlideX, onMoveY
\* only with isSlideY; a registered onMove is called for either locked axis.
C4_MoveDispatchGated ==
  LET ops == Ops(trace)
  IN /\ ops \cap MoveCallbacks # {}
        => /\ ev.kind = "move" /\ ev.touches <= 1
           /\ IsPressed(gesture) /\ IsSlide(gesture)
           /\ IsX(gesture) \/ IsY(gesture)
     /\ "onMoveX" \in ops => (IsSlideX(gesture) /\ IsX(gesture))
     /\ "onMoveY" \in ops => (IsSlideY(gesture) /\ IsY(gesture))
     /\ (ev.kind = "move" /\ ev.touches <= 1 /\ IsPressed(gesture)
         /\ ~IsX(gesture) /\ ~IsY(gesture)) => trace = <<>>
     /\ (ev.kind = "move" /\ ev.touches <= 1 /\ IsSlide(gesture)
         /\ "onMove" \in ev.props.reg) => "onMove" \in ops

\* A slide locked on Y has dispatched onMove and onMoveY, and not the
\* registered onMoveX.
C4_Witness ==
  /\ IsSlideY(gesture) /\ MoveCallbacks \subseteq ev.props.reg
  /\ OpSeq(trace) = <<"onMove", "onMoveY">>

\* C5: the step that ends a pressed gesture calls a registered onEnd exactly
\* once, locked or not; a registered onEndX exactly once if the gesture was
\* isSlideX and never otherwise, likewise onEndY; so at most one of them.
C5_EndDispatch ==
  [][ GestureEnds
      => LET reg == ev'.props.reg
         IN /\ Count(trace', "onEnd") = IF "onEnd" \in reg THEN 1 ELSE 0
            /\ Count(trace', "onEndX") =
                 IF IsSlideX(gesture) /\ "onEndX" \in reg THEN 1 ELSE 0
            /\ Count(trace', "onEndY") =
                 IF IsSlideY(gesture) /\ "onEndY" \in reg THEN 1 ELSE 0
            /\ Count(trace', "onEndX") + Count(trace', "onEndY") <= 1 ]_vars

\* A slide on X has ended with all end callbacks registered: onEnd and onEndX
\* were called, onEndY was not.
C5_Witness ==
  /\ ev.kind \in {"end", "cancel"} /\ EndCallbacks \subseteq ev.props.reg
  /\ OpSeq(SelectSeq(trace, LAMBDA c : c.op \in EndCallbacks)) = <<"onEnd", "onEndX">>

GestureCallbacks == StartCallbacks \cup MoveCallbacks \cup EndCallbacks

\* The calls of a trace that are gesture callbacks, in order.
Dispatched(tr) == SelectSeq(tr, LAMBDA c : c.op \in GestureCallbacks)

\* C6: after a start event the gesture record is exactly startX, startY,
\* startT and isPressed = true, taken from the event, with no axis lock; the
\* event called every registered one of onStart, onStartX, onStartY, each
\* with that record, and no move or end callback.
C6_StartRecordsAndDispatches ==
  ev.kind = "start"
  => /\ DOMAIN gesture = {"startX", "startY", "startT", "isPressed"}
     /\ gesture["startX"] = ev.x /\ gesture["startY"] = ev.y
     /\ gesture["startT"] <= now
     /\ gesture["isPressed"] = TRUE
     /\ ~IsX(gesture) /\ ~IsY(gesture)
     /\ OpSeq(Dispatched(trace)) =
          SelectSeq(<<"onStart", "onStartX", "onStartY">>,
                    LAMBDA cb : cb \in ev.props.reg)
     /\ \A i \in DOMAIN trace :
          trace[i].op \in GestureCallbacks => trace[i].g = gesture

\* A start away from the origin with onStart and onStartY registered.
C6_Witness ==
  /\ ev.kind = "start" /\ ev.x = DefaultSlideThreshold
  /\ ev.props.reg = {"onStart", "onStartY"}
  /\ Len(trace) = 2

\* generic 0, X 1, Y 2
Rank(op) ==
  IF op \in {"onStart", "onMove", "onEnd"} THEN 0
  ELSE IF op \in {"onStartX", "onMoveX", "onEndX"} THEN 1
  ELSE 2

\* C7: among the gesture callbacks one input event calls, the generic one
\* comes first, then the X one, then the Y one: none is called after one of
\* higher rank.
C7_DispatchOrder ==
  LET d == Dispatched(trace)
  IN \A i, j \in DOMAIN d : i < j => Rank(d[i].op) < Rank(d[j].op)

\* One event has called a generic, an X and a Y callback.
C7_Witness ==
  OpSeq(Dispatched(trace)) = <<"onStart", "onStartX", "onStartY">>

\* C8: a move, end or cancel signal handled while no gesture is pressed calls
\* nothing and leaves the gesture record, the did-slide flag and the
\* listener bindings as they were.
C8_IdleSignalNoOp ==
  [][ (ev'.kind \in {"move", "end", "cancel"} /\ ~IsPressed(gesture))
      => /\ trace' = <<>>
         /\ gesture' = gesture
         /\ Truthy(didSlide', "current") <=> Truthy(didSlide, "current")
         /\ listeners' = listeners ]_vars

\* C9 as claimed: once set, the did-slide flag stays set across every event
\* that is not a click.
C9_OnlyClickClears ==
  [][ (Truthy(didSlide, "current") /\ ev'.kind # "click")
      => Truthy(didSlide', "current") ]_vars

\* C9, amended: the step that ends a pressed gesture sets the did-slide flag
\* exactly when the gesture was isSlide; a start event and a move sample that
\* ends no gesture leave the flag as it was; a click leaves it unset; an end
\* or cancel signal with no gesture pressed leaves it unset.
C9_DidSlideLifecycle ==
  [][ /\ GestureEnds
         => (Truthy(didSlide', "current") <=> IsSlide(gesture))
      /\ (ev'.kind = "start" \/ (ev'.kind = "move" /\ ~GestureEnds))
         => didSlide' = didSlide
      /\ ev'.kind = "click" => ~Truthy(didSlide', "current")
      /\ (ev'.kind \in {"end", "cancel"} /\ ~IsPressed(gesture))
         => ~Truthy(didSlide', "current") ]_vars

\* The flag set by one gesture has survived the start and a sliding move of
\* the next.
C9_Witness ==
  /\ Truthy(didSlide, "current")
  /\ ev.kind = "move" /\ IsPressed(gesture) /\ IsSlide(gesture)

\* C10: a click with the did-slide flag unset calls the registered
\* onClickCapture and nothing else; with the flag set it calls preventDefault
\* exactly when the target is inside a link, and first; then with
\* noSlideClick it calls stopPropagation and not onClickCapture, and without
\* noSlideClick it calls the registered onClickCapture and not
\* stopPropagation.
C10_ClickGate ==
  [][ ev'.kind = "click"
      => LET ops == OpSeq(trace')
             registered == "onClickCapture" \in ev'.props.reg
         IN IF ~Truthy(didSlide, "current")
            THEN ops = IF registered THEN <<"onClickCapture">> ELSE <<>>
            ELSE /\ Count(trace', "preventDefault") = IF ev'.inLink THEN 1 ELSE 0
                 /\ ev'.inLink => ops[1] = "preventDefault"
                 /\ IF ev'.props.noSlideClick
                    THEN /\ Count(trace', "stopPropagation") = 1
                         /\ Count(trace', "onClickCapture") = 0
                    ELSE /\ Count(trace', "stopPropagation") = 0
                         /\ Count(trace', "onClickCapture") =
                              IF registered THEN 1 ELSE 0 ]_vars

\* A click inside a link after a slide, with noSlideClick and onClickCapture
\* registered: default prevented, propagation stopped, not forwarded.
C10_Witness ==
  /\ ev.kind = "click" /\ ev.inLink /\ ev.props.noSlideClick
  /\ "onClickCapture" \in ev.props.reg
  /\ OpSeq(trace) = <<"preventDefault", "stopPropagation">>

\* C11: the did-slide flag is unset after every click, whatever noSlideClick
\* and the click's target; a click that follows a click calls the registered
\* onClickCapture and nothing else.
C11_FlagClearedByClick ==
  /\ [](ev.kind = "click" => ~Truthy(didSlide, "current"))
  /\ [][ (ev.kind = "click" /\ ev'.kind = "click")
         => OpSeq(trace') = IF "onClickCapture" \in ev'.props.reg
                            THEN <<"onClickCapture">> ELSE <<>> ]_vars

\* A click after a slide was handled (default prevented, then forwarded) and
\* the flag is false.
C11_Witness ==
  /\ ev.kind = "click" /\ didSlide = RefOf(FALSE)
  /\ OpSeq(trace) = <<"preventDefault", "onClickCapture">>

\* C12: a multi-touch move sample of a pressed gesture empties the gesture
\* record, calls no move callback, calls the end callbacks (a registered
\* onEnd among them) each with the record as it was before the sample, and
\* sets the did-slide flag exactly when that record was isSlide.
C12_MultiTouchAbort ==
  [][ (ev'.kind = "move" /\ ev'.touches > 1 /\ IsPressed(gesture))
      => /\ gesture' = EmptyObject
         /\ Ops(trace') \cap MoveCallbacks = {}
         /\ \A i \in DOMAIN trace' :
              trace'[i].op \in GestureCallbacks
              => (trace'[i].op \in EndCallbacks /\ trace'[i].g = gesture)
         /\ "onEnd" \in ev'.props.reg => "onEnd" \in Ops(trace')
         /\ Truthy(didSlide', "current") <=> IsSlide(gesture) ]_vars

\* A slide on X was aborted by a multi-touch sample whose displacement is not
\* the one the end callbacks were given.
C12_Witness ==
  /\ ev.kind = "move" /\ ev.touches > 1 /\ gesture = EmptyObject
  /\ OpSeq(Dispatched(trace)) = <<"onEnd", "onEndX">>
  /\ trace[1].g["shiftX"] # ev.x - trace[1].g["startX"]

\* C13: the step that ends a pressed gesture calls a registered onLeave
\* exactly once if its event is a touchend or touchcancel, as the last call
\* and with the gesture record already empty; it does not call onLeave if
\* its event is a mouse end or a multi-touch move sample.
C13_LeaveSynthesis ==
  [][ GestureEnds
      => /\ Count(trace', "onLeave") =
              IF ev'.type \in {"touchend", "touchcancel"}
                 /\ "onLeave" \in ev'.props.reg
              THEN 1 ELSE 0
         /\ \A i \in DOMAIN trace' :
              trace'[i].op = "onLeave"
              => (i = Len(trace') /\ trace'[i].g = EmptyObject) ]_vars

\* A slide on Y ended by touchcancel: onEnd, onEndY, then onLeave.
C13_Witness ==
  /\ ev.type = "touchcancel"
  /\ OpSeq(trace) = <<"onEnd", "onEndY", "onLeave">>

\* C14: under a clock that never runs backwards, every dispatched gesture
\* call carries duration = its clock reading - the startT of its snapshot,
\* not negative and not below the duration of the call before it; a move,
\* end or cancel of a pressed gesture dispatches with that gesture's startT,
\* at readings not before the clock of the previous step, with durations not
\* below those just dispatched, and leaves startT as it was while the gesture
\* stays pressed.
C14_Duration ==
  /\ [](LET d == Dispatched(trace) IN
        \A i \in DOMAIN d :
          /\ d[i].duration = d[i].at - d[i].g["startT"]
          /\ d[i].duration >= 0
          /\ d[i].at <= now
          /\ i > 1 => d[i - 1].duration <= d[i].duration)
  /\ [][ (IsPressed(gesture) /\ ev'.kind \in {"move", "end", "cancel"})
         => LET d == Dispatched(trace)
                dn == Dispatched(trace') IN
            /\ \A i \in DOMAIN dn :
                 /\ dn[i].g["startT"] = gesture["startT"]
                 /\ dn[i].at >= now
                 /\ \A j \in DOMAIN d : d[j].duration <= dn[i].duration
            /\ IsPressed(gesture')
               => gesture'["startT"] = gesture["startT"] ]_vars

\* An end whose callbacks were dispatched at two different durations, both
\* after the start time.
C14_Witness ==
  /\ ev.kind = "end" /\ Len(Dispatched(trace)) >= 2
  /\ trace[1].duration > 0
  /\ trace[Len(trace)].duration > trace[1].duration

\* C15: in a non-touch environment each of the move, end and cancel
\* listeners is bound to the document exactly when a gesture is pressed and
\* has no binding otherwise (at mount, after every end, cancel or click);
\* in every environment a listener has at most one binding.
C15_DocumentBinding ==
  \A l \in DOMAIN listeners :
    /\ Len(listeners[l]) <= 1
    /\ ~touch => listeners[l] = IF IsPressed(gesture) THEN <<"document">>
                                ELSE <<>>

\* Non-touch: a second start arrived while the gesture was pressed (the
\* dispatched snapshot starts elsewhere than the first one did) and each
\* listener still has its single document binding.
C15_Witness ==
  /\ ~touch /\ ev.kind = "start" /\ IsPressed(gesture)
  /\ gesture["startX"] = DefaultSlideThreshold
  /\ \A l \in DOMAIN listeners : listeners[l] = <<"document">>

\* C16: every start, move, end and cancel event handled with stopPropagation
\* set has its propagation stopped, as the first thing done with it; one
\* handled with stopPropagation unset never has.
C16_StopsEveryEvent ==
  ev.kind \in {"start", "move", "end", "cancel"}
  => IF ev.props.stopPropagation
     THEN trace # <<>> /\ trace[1].op = "stopPropagation"
     ELSE "stopPropagation" \notin Ops(trace)

\* C17: a start event never arrives at a pressed gesture's record to replace
\* it, so that a second onStart is never dispatched before the onEnd of the
\* gesture before it; and a gesture stops being pressed only in an end,
\* cancel or multi-touch step.
C17_StartEndAlternate ==
  [][ /\ ev'.kind = "start" => ~IsPressed(gesture)
      /\ (IsPressed(gesture) /\ ~IsPressed(gesture'))
         => (ev'.kind \in {"end", "cancel"}
             \/ (ev'.kind = "move" /\ ev'.touches > 1)) ]_vars

\* The shift fields of record g are those of event e.
ShiftsOf(g, e) ==
  /\ {"shiftX", "shiftY", "shiftXAbs", "shiftYAbs"} \subseteq DOMAIN g
  /\ g["shiftX"] = e.x - g["startX"]
  /\ g["shiftY"] = e.y - g["startY"]
  /\ g["shiftXAbs"] = MathAbs(g["shiftX"])
  /\ g["shiftYAbs"] = MathAbs(g["shiftY"])

\* The shift fields record g has.
ShiftFields(g) ==
  [k \in {"shiftX", "shiftY", "shiftXAbs", "shiftYAbs"} \cap DOMAIN g |-> g[k]]

\* C18: every move callback is called with a snapshot whose shiftX, shiftY
\* are the sample's coordinates minus startX, startY and whose shiftXAbs,
\* shiftYAbs are their absolute values; the sample that turns the gesture
\* into a slide already stores these shifts and dispatches with them; between
\* slide samples the stored shifts stay as they are; and the end callbacks
\* are called with the record as stored, whatever the ending event's own
\* coordinates.
C18_Shifts ==
  /\ [](ev.kind = "move" /\ ev.touches <= 1
        => \A i \in DOMAIN trace :
             trace[i].op \in MoveCallbacks => ShiftsOf(trace[i].g, ev))
  /\ [][ /\ (MoveSample /\ IsSlide(gesture')) => ShiftsOf(gesture', ev')
         /\ (MoveSample /\ ~IsSlide(gesture) /\ IsSlide(gesture'))
            => Ops(trace') \cap MoveCallbacks # {}
         /\ (IsPressed(gesture) /\ IsPressed(gesture') /\ ev'.kind # "start"
             /\ ~(MoveSample /\ IsSlide(gesture')))
            => ShiftFields(gesture') = ShiftFields(gesture)
         /\ GestureEnds
            => \A i \in DOMAIN trace' :
                 trace'[i].op \in EndCallbacks => trace'[i].g = gesture ]_vars

\* An end event whose callbacks got the shifts of a slide sample left of the
\* start (shiftX negative, shiftXAbs its absolute value), which are not the
\* displacement of the end event itself.
C18_Witness ==
  /\ ev.kind = "end" /\ "onEndX" \in Ops(trace)
  /\ trace[1].g["shiftX"] < 0
  /\ trace[1].g["shiftXAbs"] = -trace[1].g["shiftX"]
  /\ trace[1].g["shiftY"] # ev.y - trace[1].g["startY"]

\* C19: every gesture callback called, of the start, move or end family, got
\* a snapshot with isPressed true and a startT, after any events.
C19_DispatchOnlyPressed ==
  \A i \in DOMAIN trace :
    trace[i].op \in GestureCallbacks
    => (IsPressed(trace[i].g) /\ Has(trace[i].g, "startT"))

\* A cancel dispatched the end callbacks of a slide on X with the pressed
\* record; the record is empty since.
C19_Witness ==
  /\ ev.kind = "cancel" /\ gesture = EmptyObject
  /\ OpSeq(Dispatched(trace)) = <<"onEnd", "onEndX">>
  /\ IsPressed(trace[1].g) /\ Has(trace[1].g, "startT")

\* The step handled a load event that passed the `if (loaded)` test: a load
\* event from the browser, or the one the effect dispatches.
LoadActedOn ==
  /\ ~loaded
  /\ \/ imageEv.kind = "load"
     \/ imageEv.kind = "effect" /\ imageEv.complete

\* C20: loaded and failed are never both true; the render that follows a
\* load event that was acted on has loaded true and failed false, the render
\* that follows an error event has loaded false and failed true; a load
\* event handled while loaded is true queues no update, calls nothing and
\* leaves both flags as they are.
C20_LoadedFailedExclusive ==
  /\ [](~(loaded /\ failed))
  /\ [][ /\ (imageEv'.kind = "render" /\ LoadActedOn)
            => (loaded' /\ ~failed')
         /\ (imageEv'.kind = "render" /\ imageEv.kind = "error")
            => (~loaded' /\ failed')
         /\ (imageEv'.kind = "load" /\ loaded)
            => /\ updates' = updates /\ imageTrace' = <<>>
               /\ loaded' /\ failed' = failed ]_vars

\* A load event arrived while loaded was true, with onLoad registered: it
\* was not called.
C20_Witness ==
  /\ loaded /\ ~failed /\ isOnLoadStatusChecked
  /\ imageEv.kind = "load" /\ "onLoad" \in imageEv.reg
  /\ imageTrace = <<>> /\ updates = <<>>

====
